---- MODULE Spec2Model ----
(***************************************************************************)
(* Portfolio tracker: the price route (src/app/api/prices/route.ts), the   *)
(* page component (src/unnamed/part_000) and the earlier page component    *)
(* (src/app/page.tsx).                                                     *)
(*                                                                         *)
(* JavaScript values that flow through the price paths are modelled as     *)
(* records [t, v]: t is the kind of value, v the integer of a finite       *)
(* number (0 for the other kinds).  Prices are counted in tenths of a      *)
(* currency unit, so that the demo price 0.6 of XRP is the integer 6.      *)
(***************************************************************************)
EXTENDS Integers, Sequences, FiniteSets, TLC

----------------------------------------------------------------------------
(* JavaScript values *)

Num(n) == [t |-> "number", v |-> n]

\* +Infinity: what JSON.parse yields for a literal such as 1e999
Infinity == [t |-> "infinity", v |-> 0]

\* NaN: what Number() yields for text that is no number
NaN == [t |-> "nan", v |-> 0]

\* a value that is no number: a string, null, an object
NotANumber == [t |-> "other", v |-> 0]

\* undefined: the field or key is absent
Undefined == [t |-> "undefined", v |-> 0]

\* typeof x === "number"
TypeofNumber(x) == x.t \in {"number", "infinity", "nan"}

\* x > 0 for a value whose typeof is "number"
GreaterThanZero(x) ==
    \/ x.t = "infinity"
    \/ x.t = "number" /\ x.v > 0

\* JSON.stringify of a number value: Infinity and NaN are written as null
JsonNumber(x) == IF x.t \in {"infinity", "nan"} THEN NotANumber ELSE x

\* a map with no key
EmptyMap == [k \in {} |-> Undefined]

Put(m, k, x) == [y \in DOMAIN m \cup {k} |-> IF y = k THEN x ELSE m[y]]

Range(s) == {s[i] : i \in DOMAIN s}

----------------------------------------------------------------------------
(* Bounds *)

\* longest symbols array of a request to the price route
MaxSymbols == 2

\* most refreshPrices calls waiting for the price route at once
MaxInFlight == 2

----------------------------------------------------------------------------
(* String.prototype.toUpperCase on the symbol strings of the model *)

toUpperCase(s) == IF s = "btc" THEN "BTC" ELSE s

----------------------------------------------------------------------------
(* src/app/api/prices/route.ts *)

CG_ID_KEYS == {"BTC", "ETH", "XRP"}

CG_ID(s) ==
    CASE s = "BTC" -> "bitcoin"
      [] s = "ETH" -> "ethereum"
      [] s = "XRP" -> "ripple"

FIX_KEYS == {"DOL", "ENB", "VFV", "QQC", "XEQT"}

FIX(s) ==
    CASE s = "DOL" -> "DOL.TO"
      [] s = "ENB" -> "ENB.TO"
      [] s = "VFV" -> "VFV.TO"
      [] s = "QQC" -> "QQC.TO"
      [] s = "XEQT" -> "XEQT.TO"

\* FIX[sym] ?? sym
Ticker(sym) == IF sym \in FIX_KEYS THEN FIX(sym) ELSE sym

\* typeof p === "number" && p > 0 (lines 24 and 43)
AcceptsPrice(p) == TypeofNumber(p) /\ GreaterThanZero(p)

\* String(...).toLowerCase() on the currency codes of the model
toLowerCase(c) ==
    CASE c = "CAD" -> "cad"
      [] c = "USD" -> "usd"
      [] c \in {"Symbol", "SYMBOL"} -> "symbol"
      [] c = "Type" -> "type"
      [] c = "Quantity" -> "quantity"
      [] c = "costBasisPerUnit" -> "costbasisperunit"
      [] OTHER -> c

\* an element of a symbols array that is no string (a number, null, an object)
NotAString == "#not-a-string"

RouteSymbols == {"btc", "ETH", "AAPL", "DOL"}

SeqsUpTo(S, n) == UNION {[1..k -> S] : k \in 0..n}

\* body.symbols: absent or falsy, a truthy value that is no array, or an array
SymbolsFields ==
    {[k |-> "missing", a |-> << >>], [k |-> "nonarray", a |-> << >>]}
    \cup {[k |-> "array", a |-> a] :
            a \in SeqsUpTo(RouteSymbols \cup {NotAString}, MaxSymbols)}

\* the request bodies: parses is FALSE for text that is no JSON;
\* baseCurrency "" is an absent field
Bodies ==
    {[parses |-> FALSE, symbols |-> [k |-> "missing", a |-> << >>],
      baseCurrency |-> ""]}
    \cup {[parses |-> TRUE, symbols |-> f, baseCurrency |-> c] :
            f \in SymbolsFields, c \in {"", "USD"}}

\* what a provider can put where a price is expected
UpstreamValues ==
    {Undefined, NotANumber, Num(0), Num(-1), Num(5), Num(7), Infinity}

Pending == [k |-> "pending", j |-> EmptyMap]

NotAsked == [k |-> "none", j |-> EmptyMap]

\* how the batched crypto request can end, for the ids it asked
CryptoOutcomes(ids) ==
    {[k |-> f, j |-> EmptyMap] : f \in {"reject", "notok", "badbody"}}
    \cup {[k |-> "ok", j |-> j] : j \in [ids -> UpstreamValues]}

\* how one equity quote request can end; j["c"] is the field q.c
EquityOutcomes ==
    {[k |-> f, j |-> EmptyMap] : f \in {"reject", "notok", "badbody"}}
    \cup {[k |-> "ok", j |-> [f \in {"c"} |-> c]] : c \in UpstreamValues}

NoResponse == [status |-> 0, prices |-> EmptyMap, error |-> ""]

\* NextResponse.json({ prices: out }): JSON.stringify writes Infinity as null
OkResponse(o) ==
    [status |-> 200, prices |-> [s \in DOMAIN o |-> JsonNumber(o[s])],
     error |-> ""]

BadRequest == [status |-> 400, prices |-> EmptyMap, error |-> "bad-request"]

VARIABLES
    pc,           \* where the POST handler stands
    body,         \* the request body it was given
    finnhubKey,   \* whether process.env holds a Finnhub key
    symbols,      \* line 8
    baseCurrency, \* line 9
    out,          \* line 11
    cg,           \* the outcome of the CoinGecko request (r and j, lines 18-20)
    quotes,       \* per equity, the outcome of its quote request (r and q)
    fetches,      \* the upstream requests issued so far, in order
    response      \* what the handler returned

routeVars ==
    <<pc, body, finnhubKey, symbols, baseCurrency, out, cg, quotes, fetches,
      response>>

\* the state of the page component of src/unnamed/part_000
VARIABLES
    holdings,   \* useState<Holding[]>
    settings,   \* useState<Settings>
    useLive,    \* useState<boolean>
    prices,     \* useState<Record<string, number>>
    busy,       \* useState(false)
    inflight    \* the refreshPrices calls waiting at await fetch, oldest first

pageVars == <<holdings, settings, useLive, prices, busy, inflight>>

\* CSV import: the file the FileReader of importCSV is reading, in the page
\* of src/unnamed/part_000 and in the page of src/app/page.tsx, and the
\* holdings of the latter
VARIABLES
    reader,      \* part_000 line 138
    download,    \* part_000 lines 127-133: the file holdings.csv last saved
    holdingsV1,  \* page.tsx line 67
    readerV1,    \* page.tsx line 129
    pricesV1     \* page.tsx line 71

csvVars == <<reader, download, holdingsV1, readerV1, pricesV1>>

vars == <<routeVars, pageVars, csvVars>>

IsCrypto(s) == s \in CG_ID_KEYS

\* a variant of line 31 that keeps only the tickers it knows
IsEquityKnownOnly(s) == s \in FIX_KEYS

IsEquity(s) == s \notin CG_ID_KEYS

\* symbols.filter(s => CG_ID[s]) (line 14)
cryptoOf(syms) == SelectSeq(syms, IsCrypto)

\* symbols.filter(s => !CG_ID[s]) (line 31)
equitiesOf(syms) == SelectSeq(syms, IsEquity)

crypto == cryptoOf(symbols)

equities == equitiesOf(symbols)

CoinGeckoFetch(syms, cur) ==
    [to |-> "coingecko", q |-> [i \in DOMAIN syms |-> CG_ID(syms[i])],
     cur |-> cur]

FinnhubFetch(sym) == [to |-> "finnhub", q |-> <<Ticker(sym)>>, cur |-> ""]

\* lines 7-8 throw: a truthy symbols that has no map, or an element without
\* toUpperCase
Line8Throws(b) ==
    /\ b.parses
    /\ \/ b.symbols.k = "nonarray"
       \/ b.symbols.k = "array" /\ NotAString \in Range(b.symbols.a)

\* lines 29-49 from the point where the crypto part is over: with a key and
\* equities every quote request is issued at once (Promise.all over map),
\* otherwise the handler returns
EquityStage(syms, o, f) ==
    IF finnhubKey /\ equitiesOf(syms) # << >>
    THEN /\ pc' = "awaitEquities"
         /\ quotes' = [i \in DOMAIN equitiesOf(syms) |-> Pending]
         /\ fetches' = f \o [i \in DOMAIN equitiesOf(syms) |->
                                FinnhubFetch(equitiesOf(syms)[i])]
         /\ response' = response
    ELSE /\ pc' = "done"
         /\ quotes' = quotes
         /\ fetches' = f
         /\ response' = OkResponse(o)

\* POST up to its first upstream await (lines 6-18, 30-34) or its return
POST(b) ==
    /\ pc = "idle"
    /\ body' = b
    /\ UNCHANGED finnhubKey
    /\ IF Line8Throws(b)
       THEN /\ pc' = "done"
            /\ response' = BadRequest
            /\ UNCHANGED <<symbols, baseCurrency, out, cg, quotes, fetches>>
       ELSE LET syms == IF b.parses /\ b.symbols.k = "array"
                        THEN [i \in DOMAIN b.symbols.a |->
                                 toUpperCase(b.symbols.a[i])]
                        ELSE << >>
                cur == IF b.parses /\ b.baseCurrency # ""
                       THEN toLowerCase(b.baseCurrency)
                       ELSE toLowerCase("CAD")
            IN /\ symbols' = syms
               /\ baseCurrency' = cur
               /\ out' = EmptyMap
               /\ IF cryptoOf(syms) # << >>
                  THEN /\ pc' = "awaitCrypto"
                       /\ cg' = Pending
                       /\ fetches' = <<CoinGeckoFetch(cryptoOf(syms), cur)>>
                       /\ UNCHANGED <<quotes, response>>
                  ELSE /\ cg' = cg
                       /\ EquityStage(syms, EmptyMap, << >>)

\* lines 21-25: the accepted crypto prices, keyed by symbol
CryptoPrices(j) ==
    [s \in {x \in Range(crypto) : AcceptsPrice(j[CG_ID(x)])} |-> j[CG_ID(s)]]

\* the CoinGecko request settles (lines 18-27): a rejected fetch or a body
\* that is no JSON throws to the catch of line 50
CryptoSettle(o) ==
    /\ pc = "awaitCrypto"
    /\ cg' = o
    /\ UNCHANGED <<body, finnhubKey, symbols, baseCurrency>>
    /\ IF o.k \in {"reject", "badbody"}
       THEN /\ pc' = "done"
            /\ response' = BadRequest
            /\ UNCHANGED <<out, quotes, fetches>>
       ELSE LET o2 == IF o.k = "ok" THEN CryptoPrices(o.j) ELSE out
            IN /\ out' = o2
               /\ EquityStage(symbols, o2, fetches)

\* one quote request settles (lines 37-44); every failure is caught
EquitySettle(i, o) ==
    /\ pc = "awaitEquities"
    /\ i \in DOMAIN quotes
    /\ quotes[i] = Pending
    /\ quotes' = [quotes EXCEPT ![i] = o]
    /\ out' = IF o.k = "ok" /\ AcceptsPrice(o.j["c"])
              THEN Put(out, equities[i], o.j["c"])
              ELSE out
    /\ UNCHANGED <<pc, body, finnhubKey, symbols, baseCurrency, cg, fetches,
                   response>>

\* Promise.all resolves once every quote request has settled (lines 46-49)
Return ==
    /\ pc = "awaitEquities"
    /\ \A i \in DOMAIN quotes : quotes[i] # Pending
    /\ pc' = "done"
    /\ response' = OkResponse(out)
    /\ UNCHANGED <<body, finnhubKey, symbols, baseCurrency, out, cg, quotes,
                   fetches>>

RouteInit ==
    /\ pc = "idle"
    /\ body = [parses |-> FALSE, symbols |-> [k |-> "missing", a |-> << >>],
               baseCurrency |-> ""]
    /\ finnhubKey \in BOOLEAN
    /\ symbols = << >>
    /\ baseCurrency = ""
    /\ out = EmptyMap
    /\ cg = NotAsked
    /\ quotes = << >>
    /\ fetches = << >>
    /\ response = NoResponse

Receive == (\E b \in Bodies : POST(b)) /\ UNCHANGED <<pageVars, csvVars>>

CryptoResponds ==
    /\ \E o \in CryptoOutcomes({CG_ID(s) : s \in Range(crypto)}) : CryptoSettle(o)
    /\ UNCHANGED <<pageVars, csvVars>>

EquityResponds ==
    /\ \E i \in DOMAIN quotes, o \in EquityOutcomes : EquitySettle(i, o)
    /\ UNCHANGED <<pageVars, csvVars>>

Returns == Return /\ UNCHANGED <<pageVars, csvVars>>

RouteNext ==
    \/ Receive
    \/ CryptoResponds
    \/ EquityResponds
    \/ Returns


----------------------------------------------------------------------------
(* src/unnamed/part_000: the page component *)

DEMO_KEYS == {"DOL", "ENB", "VFV", "QQC", "XEQT", "BTC", "ETH", "XRP"}

\* in tenths of a currency unit
DEMO_PRICES(s) ==
    CASE s = "DOL" -> 1300
      [] s = "ENB" -> 470
      [] s = "VFV" -> 1150
      [] s = "QQC" -> 1500
      [] s = "XEQT" -> 350
      [] s = "BTC" -> 620000
      [] s = "ETH" -> 25000
      [] s = "XRP" -> 6

\* DEMO_PRICES[s] ?? 0
DemoOrZero(s) == IF s \in DEMO_KEYS THEN Num(DEMO_PRICES(s)) ELSE Num(0)

\* the ids uid() returns in the model; the page holds at most as many rows
RowIds == {1, 2}

UnusedIds(h) == {n \in RowIds : \A i \in DOMAIN h : h[i].id # n}

\* uid(): an id no holding of the list has
uid(h) == CHOOSE n \in UnusedIds(h) : \A m \in UnusedIds(h) : n <= m

NewRow(h) ==
    [id |-> uid(h), symbol |-> "", type |-> "Stock", quantity |-> Num(0),
     costBasisPerUnit |-> Num(0)]

\* addRow() as the Add Row button calls it, without prefill
addRow ==
    /\ UnusedIds(holdings) # {}
    /\ holdings' = Append(holdings, NewRow(holdings))
    /\ UNCHANGED <<settings, useLive, prices, busy, inflight>>

\* The ids are random strings that nothing reads but removeRow and
\* updateRow, to find a row: the model names the rows 1, 2, ... in list
\* order, and renames them when a row leaves.
Renamed(h) == [i \in DOMAIN h |-> [h[i] EXCEPT !.id = i]]

removeRow(id) ==
    /\ \E i \in DOMAIN holdings : holdings[i].id = id
    /\ holdings' = Renamed(SelectSeq(holdings, LAMBDA h : h.id # id))
    /\ UNCHANGED <<settings, useLive, prices, busy, inflight>>

\* { ...x, ...patch } for a patch of one field
Patched(x, field, value) ==
    CASE field = "symbol" -> [x EXCEPT !.symbol = value]
      [] field = "type" -> [x EXCEPT !.type = value]
      [] field = "quantity" -> [x EXCEPT !.quantity = value]
      [] field = "costBasisPerUnit" -> [x EXCEPT !.costBasisPerUnit = value]

updateRow(id, field, value) ==
    /\ \E i \in DOMAIN holdings : holdings[i].id = id
    /\ holdings' = [i \in DOMAIN holdings |->
                       IF holdings[i].id = id
                       THEN Patched(holdings[i], field, value)
                       ELSE holdings[i]]
    /\ UNCHANGED <<settings, useLive, prices, busy, inflight>>

\* [...new Set(xs)]: the first occurrence of each element, in order
RECURSIVE Distinct(_)
Distinct(xs) ==
    IF xs = << >> THEN << >>
    ELSE LET r == Distinct(SubSeq(xs, 1, Len(xs) - 1))
         IN IF xs[Len(xs)] \in Range(r) THEN r ELSE Append(r, xs[Len(xs)])

\* lines 171-173
SymbolsOf(h) ==
    Distinct(SelectSeq([i \in DOMAIN h |-> toUpperCase(h[i].symbol)],
                       LAMBDA str : str # ""))

\* setDemo (lines 176-180): the map it publishes
DemoMap(syms) == [s \in Range(syms) |-> DemoOrZero(s)]

\* a variant of line 195 that also copies the keys of the response nobody
\* asked for
MergedWithResponseKeys(syms, live) ==
    [s \in Range(syms) \cup DOMAIN live |->
        IF s \in DOMAIN live /\ TypeofNumber(live[s]) THEN live[s]
        ELSE DemoOrZero(s)]

\* a variant of line 195 that prefers the fallback table to the live value
MergedFallbackFirst(syms, live) ==
    [s \in Range(syms) |->
        IF s \in DEMO_KEYS THEN Num(DEMO_PRICES(s))
        ELSE IF s \in DOMAIN live /\ TypeofNumber(live[s]) THEN live[s]
        ELSE Num(0)]

\* line 195
Merged(syms, live) ==
    [s \in Range(syms) |->
        IF s \in DOMAIN live /\ TypeofNumber(live[s]) THEN live[s]
        ELSE DemoOrZero(s)]

\* live = j?.prices || {} for the JSON bodies j of the model (line 193): no
\* price at all, a number for BTC, or no number for BTC and a number for a
\* key nobody asked for
LiveMaps ==
    {EmptyMap,
     [s \in {"BTC"} |-> Num(7)],
     [s \in {"BTC", "XRP"} |-> IF s = "BTC" THEN NotANumber ELSE Num(7)]}

\* how the fetch of /api/prices can end (lines 185-198): the fetch rejects
\* or its body is no JSON, and the catch of line 196 runs, or the body is
\* JSON
RouteOutcomes ==
    {[k |-> "throws", live |-> EmptyMap]}
    \cup {[k |-> "json", live |-> m] : m \in LiveMaps}

\* a variant of lines 167-206 that asks the price route whatever the live
\* switch says
refreshPricesAlwaysLive(h, live) ==
    IF Len(h) = 0
    THEN UNCHANGED <<prices, busy, inflight>>
    ELSE /\ Len(inflight) < MaxInFlight
         /\ busy' = TRUE
         /\ inflight' = Append(inflight, [symbols |-> SymbolsOf(h)])
         /\ UNCHANGED prices

\* refreshPrices() up to its await or its end (lines 167-191, 202-205),
\* called where the holdings are h and the live switch is live; the request
\* in flight is kept as the symbols it asks for (its baseCurrency does not
\* bear on what the page does with the answer)
refreshPrices(h, live) ==
    IF Len(h) = 0
    THEN UNCHANGED <<prices, busy, inflight>>
    ELSE IF live
    THEN /\ Len(inflight) < MaxInFlight
         /\ busy' = TRUE
         /\ inflight' = Append(inflight, [symbols |-> SymbolsOf(h)])
         /\ UNCHANGED prices
    ELSE /\ prices' = DemoMap(SymbolsOf(h))
         /\ busy' = FALSE
         /\ UNCHANGED inflight

\* the Refresh Prices button (lines 249-251), disabled while busy
RefreshButton ==
    /\ ~busy
    /\ refreshPrices(holdings, useLive)
    /\ UNCHANGED <<holdings, settings, useLive>>

\* Save & Refresh (lines 397-399)
SaveAndRefresh ==
    /\ refreshPrices(holdings, useLive)
    /\ UNCHANGED <<holdings, settings, useLive>>

\* the Live prices checkbox (lines 381-385) and the effect of lines 209-212
ToggleLive ==
    /\ useLive' = ~useLive
    /\ settings' = [settings EXCEPT !.useLivePrices = ~useLive]
    /\ refreshPrices(holdings, useLive')
    /\ UNCHANGED holdings

\* the Base currency select (line 367) and the effect of lines 209-212
SetBaseCurrency(c) ==
    /\ c # settings.baseCurrency
    /\ settings' = [settings EXCEPT !.baseCurrency = c]
    /\ refreshPrices(holdings, useLive)
    /\ UNCHANGED <<holdings, useLive>>

RemoveAt(q, i) == SubSeq(q, 1, i - 1) \o SubSeq(q, i + 1, Len(q))

\* a variant of lines 192-198 whose catch publishes an empty map
PublishedEmptyOnThrow(syms, o) ==
    IF o.k = "json" THEN Merged(syms, o.live) ELSE EmptyMap

\* lines 192-198: what a call that asked for syms publishes on the answer o
Published(syms, o) ==
    IF o.k = "json" THEN Merged(syms, o.live) ELSE DemoMap(syms)

\* a variant of lines 192-201 in which a call that is not the newest one in
\* flight drops its answer
SettleNewestOnly(i, o) ==
    /\ i \in DOMAIN inflight
    /\ prices' = IF i = Len(inflight)
                 THEN Published(inflight[i].symbols, o)
                 ELSE prices
    /\ busy' = FALSE
    /\ inflight' = RemoveAt(inflight, i)
    /\ UNCHANGED <<holdings, settings, useLive>>

\* the fetch of call i settles and the call runs to its end (lines 192-201)
Settle(i, o) ==
    /\ i \in DOMAIN inflight
    /\ prices' = Published(inflight[i].symbols, o)
    /\ busy' = FALSE
    /\ inflight' = RemoveAt(inflight, i)
    /\ UNCHANGED <<holdings, settings, useLive>>

----------------------------------------------------------------------------
(* CSV import: src/unnamed/part_000 lines 137-164 and src/app/page.tsx
   lines 128-152 *)

\* A text is a sequence of characters, in which a run of characters other
\* than the comma, the blank and the line ends is kept as one word
\* ("symbol", "btc", "2").
Comma == ","

Blank == " "

CR == "<CR>"

LF == "<LF>"

\* String.prototype.split(sep) for a separator of one character
RECURSIVE split(_, _)
split(str, sep) ==
    IF \A i \in DOMAIN str : str[i] # sep THEN <<str>>
    ELSE LET i == CHOOSE k \in DOMAIN str :
                     str[k] = sep /\ \A j \in 1..(k - 1) : str[j] # sep
         IN <<SubSeq(str, 1, i - 1)>>
                \o split(SubSeq(str, i + 1, Len(str)), sep)

\* text.split(/\r?\n/): a line end is LF, with the CR before it if any
splitLines(text) ==
    LET parts == split(text, LF)
    IN [i \in DOMAIN parts |->
           IF /\ i < Len(parts)
              /\ parts[i] # << >>
              /\ parts[i][Len(parts[i])] = CR
           THEN SubSeq(parts[i], 1, Len(parts[i]) - 1)
           ELSE parts[i]]

\* .filter(Boolean) on strings: the empty ones go
filterBoolean(strs) == SelectSeq(strs, LAMBDA x : x # << >>)

\* String.prototype.trim()
RECURSIVE trim(_)
trim(str) ==
    IF str = << >> THEN str
    ELSE IF Head(str) \in {Blank, CR, LF} THEN trim(Tail(str))
    ELSE IF str[Len(str)] \in {Blank, CR, LF}
    THEN trim(SubSeq(str, 1, Len(str) - 1))
    ELSE str

\* the string a trimmed field stands for: the fields of the model's files
\* hold one word at most
Word(str) == IF str = << >> THEN "" ELSE str[1]

NumberWords == {"0", "2", "5", "-1"}

WordValue(w) ==
    CASE w = "0" -> 0
      [] w = "2" -> 2
      [] w = "5" -> 5
      [] w = "-1" -> -1

\* Number(str): blanks around the number are skipped, the empty string is
\* 0 and text that is no number is NaN
Number(str) ==
    LET t == trim(str)
    IN IF t = << >> THEN Num(0)
       ELSE IF Len(t) = 1 /\ t[1] \in NumberWords THEN Num(WordValue(t[1]))
       ELSE NaN

\* header.split(",").map(s => s.trim().toLowerCase())
Cols(header) ==
    LET f == split(header, Comma)
    IN [i \in DOMAIN f |-> toLowerCase(Word(trim(f[i])))]

\* idx[k] of Object.fromEntries(cols.map((c, i) => [c, i])): the last
\* column named k, counted from 1, and 0 where idx[k] is undefined
idx(cols, k) ==
    IF k \in Range(cols)
    THEN CHOOSE i \in DOMAIN cols :
            cols[i] = k /\ \A j \in DOMAIN cols : cols[j] = k => j <= i
    ELSE 0

\* c[idx.k], where it is read only for being falsy or for its text:
\* undefined reads as the empty string
Field(c, i) == IF i \in DOMAIN c THEN c[i] ELSE << >>

\* Number(c[idx.k] || 0)
NumberOrZero(c, i) == IF Field(c, i) = << >> THEN Num(0) ELSE Number(Field(c, i))

\* part_000 line 144
req == {"symbol", "type", "quantity", "costbasisperunit"}

\* part_000 lines 151-160; the rows get the ids 1, 2, ... (see Renamed)
parsed(rows, cols) ==
    [n \in DOMAIN rows |->
        LET c == split(rows[n], Comma)
        IN [id |-> n,
            symbol |-> Word(trim(Field(c, idx(cols, "symbol")))),
            type |-> IF Field(c, idx(cols, "type")) = << >> THEN "Stock"
                     ELSE Word(trim(Field(c, idx(cols, "type")))),
            quantity |-> NumberOrZero(c, idx(cols, "quantity")),
            costBasisPerUnit |->
                NumberOrZero(c, idx(cols, "costbasisperunit"))]]

\* no file is being read
NoFile == [reading |-> FALSE, text |-> << >>]

\* importCSV(file) up to reader.readAsText(file) (part_000 lines 137-138,
\* 163); one file is read at a time
importCSV(file) ==
    /\ ~reader.reading
    /\ reader' = [reading |-> TRUE, text |-> file]
    /\ UNCHANGED <<pageVars, download, holdingsV1, readerV1, pricesV1>>

\* reader.onload (part_000 lines 139-162); header.split of line 143 throws
\* on a text without lines, which ends the handler
Loaded(text, h) ==
    LET lines == filterBoolean(splitLines(text))
    IN IF lines = << >> THEN h
       ELSE LET cols == Cols(Head(lines))
            IN IF \A k \in req : k \in Range(cols)
               THEN parsed(Tail(lines), cols)
               ELSE h

onload ==
    /\ reader.reading
    /\ reader' = NoFile
    /\ holdings' = Loaded(reader.text, holdings)
    /\ UNCHANGED <<settings, useLive, prices, busy, inflight>>
    /\ UNCHANGED <<download, holdingsV1, readerV1, pricesV1>>

\* the characters of a string of the model: a symbol typed with a comma,
\* with a blank before it or with a line break in it, and the words
Chars(str) ==
    CASE str = "" -> << >>
      [] str = "a,b" -> <<"a", Comma, "b">>
      [] str = " btc" -> <<Blank, "btc">>
      [] str = "a<LF>b" -> <<"a", LF, "b">>
      [] OTHER -> <<str>>

\* String(x) for a number, as Array.prototype.join writes it
NumberText(x) ==
    IF x.t = "nan" THEN <<"NaN">>
    ELSE CASE x.v = 0 -> <<"0">>
           [] x.v = 2 -> <<"2">>
           [] x.v = 5 -> <<"5">>
           [] x.v = -1 -> <<"-1">>

\* Array.prototype.join(sep) on strings
RECURSIVE join(_, _)
join(strs, sep) ==
    IF strs = << >> THEN << >>
    ELSE IF Len(strs) = 1 THEN strs[1]
    ELSE strs[1] \o <<sep>> \o join(Tail(strs), sep)

\* part_000 lines 122-126: the text exportCSV writes for the holdings h
csv(h) ==
    LET header == <<"symbol", Comma, "type", Comma, "quantity", Comma,
                    "costBasisPerUnit">>
        rows == join([i \in DOMAIN h |->
                         join(<<Chars(h[i].symbol), Chars(h[i].type),
                                NumberText(h[i].quantity),
                                NumberText(h[i].costBasisPerUnit)>>, Comma)],
                     LF)
    IN header \o <<LF>> \o rows

\* no file has been saved
NoDownload == [saved |-> FALSE, text |-> << >>]

\* exportCSV() (part_000 lines 121-135): the browser saves the text
exportCSV ==
    /\ download' = [saved |-> TRUE, text |-> csv(holdings)]
    /\ UNCHANGED <<pageVars, reader, holdingsV1, readerV1, pricesV1>>

\* page.tsx line 68: the base currency of the settings as loaded
page_baseCurrency == "CAD"

\* page.tsx line 113, without prefill
page_NewRow(h) ==
    [id |-> uid(h), symbol |-> "", name |-> "", type |-> "Stock",
     exchange |-> "", currency |-> page_baseCurrency, quantity |-> Num(0),
     costBasisPerUnit |-> Num(0)]

\* page.tsx lines 112-114
page_addRow ==
    /\ UnusedIds(holdingsV1) # {}
    /\ holdingsV1' = Append(holdingsV1, page_NewRow(holdingsV1))
    /\ UNCHANGED <<pageVars, reader, download, readerV1, pricesV1>>

\* c[idx.k]?.trim() || fallback (page.tsx lines 138-142)
TrimOr(c, i, fallback) ==
    IF Word(trim(Field(c, i))) = "" THEN fallback
    ELSE Word(trim(Field(c, i)))

\* page.tsx lines 134-147
page_parsed(rows, cols) ==
    [n \in DOMAIN rows |->
        LET c == split(rows[n], Comma)
        IN [id |-> n,
            symbol |-> TrimOr(c, idx(cols, "symbol"), ""),
            name |-> TrimOr(c, idx(cols, "name"), ""),
            type |-> TrimOr(c, idx(cols, "type"), "Stock"),
            exchange |-> TrimOr(c, idx(cols, "exchange"), ""),
            currency |-> TrimOr(c, idx(cols, "currency"), page_baseCurrency),
            quantity |-> NumberOrZero(c, idx(cols, "quantity")),
            costBasisPerUnit |->
                NumberOrZero(c, idx(cols, "costbasisperunit"))]]

\* importCSV(file) of page.tsx up to reader.readAsText(file) (lines
\* 128-129, 151)
page_importCSV(file) ==
    /\ ~readerV1.reading
    /\ readerV1' = [reading |-> TRUE, text |-> file]
    /\ UNCHANGED <<pageVars, reader, download, holdingsV1, pricesV1>>

\* reader.onload of page.tsx (lines 130-150): line 133 throws on a text
\* without lines; nothing looks at the names of the columns before line 149
page_onload ==
    /\ readerV1.reading
    /\ readerV1' = NoFile
    /\ LET lines == filterBoolean(splitLines(readerV1.text))
       IN IF lines = << >> THEN UNCHANGED holdingsV1
          ELSE holdingsV1' = page_parsed(Tail(lines), Cols(Head(lines)))
    /\ UNCHANGED <<pageVars, reader, download, pricesV1>>

\* the files of the model: headers with all the required columns (as
\* exportCSV writes them; in another order, in other case and with a
\* blank), headers that lack some, and rows
FullHeader ==
    <<"symbol", Comma, "type", Comma, "quantity", Comma, "costBasisPerUnit">>

Headers ==
    {FullHeader,
     <<"Type", Comma, Blank, "SYMBOL", Comma, "costbasisperunit", Comma,
       "Quantity">>,
     <<"symbol", Comma, "type", Comma, "quantity">>,
     <<"name", Comma, "Symbol">>}

BtcRow == <<"btc", Comma, "Crypto", Comma, "2", Comma, "5">>

ZzzRow == <<"ZZZ", Comma, Blank, Comma, "x">>

CsvFiles ==
    {<< >>}
    \cup Headers
    \cup {h \o <<LF>> \o r : h \in Headers, r \in {BtcRow, ZzzRow}}
    \cup {FullHeader \o <<CR, LF>> \o BtcRow \o <<CR, LF>>,
          FullHeader \o <<LF>> \o BtcRow \o <<LF>> \o ZzzRow}

CsvInitial ==
    /\ reader = NoFile
    /\ download = NoDownload
    /\ holdingsV1 = << >>
    /\ readerV1 = NoFile
    /\ pricesV1 = EmptyMap

\* what the user types into a symbol field
SymbolInputs == {"", "btc", "ZZZ"}

PageInitial ==
    /\ holdings = << >>
    /\ settings = [baseCurrency |-> "CAD", useLivePrices |-> FALSE]
    /\ useLive = FALSE
    /\ prices = EmptyMap
    /\ busy = FALSE
    /\ inflight = << >>

AddRow == addRow /\ UNCHANGED <<routeVars, csvVars>>

RemoveSome ==
    /\ \E i \in DOMAIN holdings : removeRow(holdings[i].id)
    /\ UNCHANGED <<routeVars, csvVars>>

EditSymbol ==
    /\ \E i \in DOMAIN holdings, v \in SymbolInputs :
          /\ v # holdings[i].symbol
          /\ updateRow(holdings[i].id, "symbol", v)
    /\ UNCHANGED <<routeVars, csvVars>>

ClickRefresh == RefreshButton /\ UNCHANGED <<routeVars, csvVars>>

ClickSaveAndRefresh == SaveAndRefresh /\ UNCHANGED <<routeVars, csvVars>>

ClickLive == ToggleLive /\ UNCHANGED <<routeVars, csvVars>>

ChangeCurrency ==
    /\ \E c \in {"CAD", "USD"} : SetBaseCurrency(c)
    /\ UNCHANGED <<routeVars, csvVars>>

RouteAnswers ==
    /\ \E i \in DOMAIN inflight, o \in RouteOutcomes : Settle(i, o)
    /\ UNCHANGED <<routeVars, csvVars>>

PageNext ==
    \/ AddRow
    \/ RemoveSome
    \/ EditSymbol
    \/ ClickRefresh
    \/ ClickSaveAndRefresh
    \/ ClickLive
    \/ ChangeCurrency
    \/ RouteAnswers

ChooseFile ==
    /\ \E f \in CsvFiles : importCSV(f)
    /\ UNCHANGED routeVars

FileLoaded == onload /\ UNCHANGED routeVars

PageTsxAddRow == page_addRow /\ UNCHANGED routeVars

PageTsxChooseFile ==
    /\ \E f \in CsvFiles : page_importCSV(f)
    /\ UNCHANGED routeVars

PageTsxFileLoaded == page_onload /\ UNCHANGED routeVars

CsvNext ==
    \/ AddRow
    \/ ChooseFile
    \/ FileLoaded
    \/ PageTsxAddRow
    \/ PageTsxChooseFile
    \/ PageTsxFileLoaded

----------------------------------------------------------------------------
(* Valuation: src/unnamed/part_000 lines 85-98, src/app/page.tsx lines
   92-110. Money is counted in tenths, as the prices are; the quantities and
   the costBasisPerUnit of the rows are whole numbers. *)

\* m[k], undefined where m has no key k
Lookup(m, k) == IF k \in DOMAIN m THEN m[k] ELSE Undefined

\* a ?? b
Coalesce(a, b) == IF a.t = "undefined" THEN b ELSE a

\* a * b, a + b and a - b on numbers that are finite or NaN
Times(a, b) == IF a.t = "nan" \/ b.t = "nan" THEN NaN ELSE Num(a.v * b.v)

Plus(a, b) == IF a.t = "nan" \/ b.t = "nan" THEN NaN ELSE Num(a.v + b.v)

Minus(a, b) == IF a.t = "nan" \/ b.t = "nan" THEN NaN ELSE Num(a.v - b.v)

\* a whole number of the rows, in tenths
Tenths(x) == IF x.t = "nan" THEN NaN ELSE Num(10 * x.v)

\* DEMO_PRICES[sym], undefined where the table has no such key
DemoLookup(sym) ==
    IF sym \in DEMO_KEYS THEN Num(DEMO_PRICES(sym)) ELSE Undefined

\* a variant of part_000 line 90 that looks into the table first
pxTableFirst(p, sym) ==
    Coalesce(Coalesce(DemoLookup(sym), Lookup(p, sym)), Num(0))

\* part_000 line 90: prices[sym] ?? DEMO_PRICES[sym] ?? 0
px(p, sym) == Coalesce(Coalesce(Lookup(p, sym), DemoLookup(sym)), Num(0))

\* part_000 lines 86-91: current after the first n rows of the loop
RECURSIVE current(_, _, _)
current(h, p, n) ==
    IF n = 0 THEN Num(0)
    ELSE Plus(current(h, p, n - 1),
              Times(px(p, toUpperCase(h[n].symbol)), h[n].quantity))

\* part_000 lines 87-92: cost after the first n rows of the loop
RECURSIVE cost(_, _)
cost(h, n) ==
    IF n = 0 THEN Num(0)
    ELSE Plus(cost(h, n - 1),
              Times(Tenths(h[n].costBasisPerUnit), h[n].quantity))

\* a percentage: the quotient v / per, or NaN or an infinity
Pct(v, per) == [t |-> "number", v |-> v, per |-> per]

\* a variant of part_000 line 96 without the test of cost
pnlPctUnguarded(pnl, c) ==
    IF pnl.t = "nan" \/ c.t = "nan" THEN [t |-> "nan", v |-> 0, per |-> 1]
    ELSE IF c.v = 0
    THEN [t |-> IF pnl.v = 0 THEN "nan" ELSE "infinity", v |-> 0, per |-> 1]
    ELSE Pct(100 * pnl.v, c.v)

\* part_000 line 96 and page.tsx line 100:
\* cost > 0 ? (pnl / cost) * 100 : 0
pnlPct(pnl, c) ==
    IF c.t = "number" /\ c.v > 0
    THEN IF pnl.t = "nan" THEN [t |-> "nan", v |-> 0, per |-> 1]
         ELSE Pct(100 * pnl.v, c.v)
    ELSE Pct(0, 1)

\* part_000 lines 85-98
totals(h, p) ==
    LET cur == current(h, p, Len(h))
        c == cost(h, Len(h))
        pnl == Minus(cur, c)
    IN [current |-> cur, cost |-> c, pnl |-> pnl, pnlPct |-> pnlPct(pnl, c)]

\* page.tsx lines 24-31
page_DEMO_KEYS == DEMO_KEYS \cup {"AAPL", "MSFT", "NVDA", "SPY", "QQQ", "VOO"}

page_DEMO(s) ==
    CASE s \in DEMO_KEYS -> DEMO_PRICES(s)
      [] s = "AAPL" -> 2280
      [] s = "MSFT" -> 4100
      [] s = "NVDA" -> 1150
      [] s = "SPY" -> 5300
      [] s \in {"QQQ", "VOO"} -> 4700

page_DemoLookup(sym) ==
    IF sym \in page_DEMO_KEYS THEN Num(page_DEMO(sym)) ELSE Undefined

\* page.tsx lines 95 and 106
page_px(p, sym) ==
    Coalesce(Coalesce(Lookup(p, sym), page_DemoLookup(sym)), Num(0))

\* page.tsx lines 93-96: current after the first n rows of the loop
RECURSIVE page_current(_, _, _)
page_current(h, p, n) ==
    IF n = 0 THEN Num(0)
    ELSE Plus(page_current(h, p, n - 1),
              Times(page_px(p, toUpperCase(h[n].symbol)), h[n].quantity))

\* page.tsx lines 92-101; the loop of the cost is that of part_000
page_totals(h, p) ==
    LET cur == page_current(h, p, Len(h))
        c == cost(h, Len(h))
        pnl == Minus(cur, c)
    IN [current |-> cur, cost |-> c, pnl |-> pnl, pnlPct |-> pnlPct(pnl, c)]

\* x || 0 for a number or undefined: 0 and NaN are falsy
OrZero(x) ==
    IF x.t = "undefined" \/ x.t = "nan" \/ (x.t = "number" /\ x.v = 0)
    THEN Num(0)
    ELSE x

\* page.tsx lines 104-108: m[name] after the first n rows of the loop
RECURSIVE page_m(_, _, _, _)
page_m(h, p, n, name) ==
    IF n = 0 THEN Undefined
    ELSE IF h[n].type # name THEN page_m(h, p, n - 1, name)
    ELSE Plus(OrZero(page_m(h, p, n - 1, name)),
              Times(page_px(p, toUpperCase(h[n].symbol)), h[n].quantity))

\* page.tsx lines 103-110: Object.entries lists the keys in the order the
\* loop wrote them first
allocation(h, p) ==
    LET names == Distinct([i \in DOMAIN h |-> h[i].type])
    IN [i \in DOMAIN names |->
           [name |-> names[i], value |-> page_m(h, p, Len(h), names[i])]]

\* page.tsx lines 60-64: resolvePrice answers DEMO[symbol] ?? 0 in every
\* mode
resolvePrice(symbol) == Coalesce(page_DemoLookup(toUpperCase(symbol)), Num(0))

\* page.tsx lines 77-88: refreshPrices; its awaits wait for promises that
\* are resolved already, so that no event comes between, and busy is false
\* again at its end
page_refreshPrices ==
    /\ pricesV1' = IF Len(holdingsV1) = 0 THEN pricesV1
                   ELSE [s \in Range(SymbolsOf(holdingsV1)) |->
                            resolvePrice(s)]
    /\ UNCHANGED <<pageVars, reader, download, holdingsV1, readerV1>>

\* page.tsx lines 115-117, for a patch of one field
page_Patched(x, field, value) ==
    CASE field = "symbol" -> [x EXCEPT !.symbol = value]
      [] field = "type" -> [x EXCEPT !.type = value]
      [] field = "quantity" -> [x EXCEPT !.quantity = value]
      [] field = "costBasisPerUnit" -> [x EXCEPT !.costBasisPerUnit = value]

page_updateRow(id, field, value) ==
    /\ \E i \in DOMAIN holdingsV1 : holdingsV1[i].id = id
    /\ holdingsV1' = [i \in DOMAIN holdingsV1 |->
                         IF holdingsV1[i].id = id
                         THEN page_Patched(holdingsV1[i], field, value)
                         ELSE holdingsV1[i]]
    /\ UNCHANGED <<pageVars, reader, download, readerV1, pricesV1>>

\* Number(e.target.value) for what the user types into a number field
NumberInputs == {Num(0), Num(2), Num(-1)}

CostInputs == {Num(0), Num(5), Num(-1)}

\* holdings as load(STORAGE.HOLDINGS, []) finds them (part_000 lines 61-63)
StoredHoldings ==
    {<< >>,
     <<[id |-> 1, symbol |-> "btc", type |-> "Crypto", quantity |-> Num(2),
        costBasisPerUnit |-> Num(5)]>>,
     <<[id |-> 1, symbol |-> "btc", type |-> "Crypto", quantity |-> Num(2),
        costBasisPerUnit |-> Num(5)],
       [id |-> 2, symbol |-> "btc", type |-> "Stock", quantity |-> Num(2),
        costBasisPerUnit |-> Num(0)]>>}

\* the same holdings as page.tsx keeps them (page.tsx line 67)
page_Stored(h) ==
    [i \in DOMAIN h |->
        [id |-> h[i].id, symbol |-> h[i].symbol, name |-> "",
         type |-> h[i].type, exchange |-> "", currency |-> page_baseCurrency,
         quantity |-> h[i].quantity,
         costBasisPerUnit |-> h[i].costBasisPerUnit]]

\* the price maps a refreshPrices call of part_000 can have published
PublishedMaps ==
    {EmptyMap}
    \cup {Published(syms, o) :
             syms \in {SymbolsOf(h) : h \in StoredHoldings},
             o \in RouteOutcomes}

\* the page of part_000 is open, with stored holdings and prices published
\* before, or the page of page.tsx is open
ValueInitial ==
    /\ settings = [baseCurrency |-> "CAD", useLivePrices |-> FALSE]
    /\ useLive = FALSE
    /\ busy = FALSE
    /\ inflight = << >>
    /\ reader = NoFile
    /\ download = NoDownload
    /\ readerV1 = NoFile
    /\ pricesV1 = EmptyMap
    /\ \/ /\ holdings \in StoredHoldings
          /\ prices \in PublishedMaps
          /\ holdingsV1 = << >>
       \/ /\ holdings = << >>
          /\ prices = EmptyMap
          /\ holdingsV1 \in {page_Stored(h) : h \in StoredHoldings}

\* what the user types into a symbol field before an export
TypeSymbol ==
    /\ \E i \in DOMAIN holdings, v \in {"btc", "a,b", " btc", "a<LF>b"} :
          /\ v # holdings[i].symbol
          /\ updateRow(holdings[i].id, "symbol", v)
    /\ UNCHANGED <<routeVars, csvVars>>

\* one file is saved in a run
ExportCSV ==
    /\ ~download.saved
    /\ exportCSV
    /\ UNCHANGED routeVars

\* the user picks the file saved last in the file input
ChooseDownload ==
    /\ download.saved
    /\ importCSV(download.text)
    /\ UNCHANGED routeVars

RoundTripNext ==
    \/ AddRow
    \/ TypeSymbol
    \/ ExportCSV
    \/ ChooseDownload
    \/ FileLoaded

EditQuantity ==
    /\ \E i \in DOMAIN holdings, v \in NumberInputs :
          /\ v # holdings[i].quantity
          /\ updateRow(holdings[i].id, "quantity", v)
    /\ UNCHANGED <<routeVars, csvVars>>

EditCost ==
    /\ \E i \in DOMAIN holdings, v \in CostInputs :
          /\ v # holdings[i].costBasisPerUnit
          /\ updateRow(holdings[i].id, "costBasisPerUnit", v)
    /\ UNCHANGED <<routeVars, csvVars>>

PageTsxEditSymbol ==
    /\ \E i \in DOMAIN holdingsV1, v \in SymbolInputs :
          /\ v # holdingsV1[i].symbol
          /\ page_updateRow(holdingsV1[i].id, "symbol", v)
    /\ UNCHANGED routeVars

PageTsxEditType ==
    /\ \E i \in DOMAIN holdingsV1, v \in {"Stock", "Crypto"} :
          /\ v # holdingsV1[i].type
          /\ page_updateRow(holdingsV1[i].id, "type", v)
    /\ UNCHANGED routeVars

PageTsxEditQuantity ==
    /\ \E i \in DOMAIN holdingsV1, v \in NumberInputs :
          /\ v # holdingsV1[i].quantity
          /\ page_updateRow(holdingsV1[i].id, "quantity", v)
    /\ UNCHANGED routeVars

PageTsxEditCost ==
    /\ \E i \in DOMAIN holdingsV1, v \in CostInputs :
          /\ v # holdingsV1[i].costBasisPerUnit
          /\ page_updateRow(holdingsV1[i].id, "costBasisPerUnit", v)
    /\ UNCHANGED routeVars

PageTsxRefresh == page_refreshPrices /\ UNCHANGED routeVars

ValueNext ==
    \/ EditSymbol
    \/ EditQuantity
    \/ EditCost
    \/ ClickRefresh
    \/ PageTsxEditSymbol
    \/ PageTsxEditType
    \/ PageTsxEditQuantity
    \/ PageTsxEditCost
    \/ PageTsxRefresh

\* files with all the columns: a row of positive numbers, a row with a
\* negative quantity
NegRow == <<"btc", Comma, "Crypto", Comma, "-1", Comma, "5">>

ChooseHoldingsFile ==
    /\ \E r \in {BtcRow, NegRow} : importCSV(FullHeader \o <<LF>> \o r)
    /\ UNCHANGED routeVars

HoldingsNext ==
    \/ AddRow
    \/ RemoveSome
    \/ EditQuantity
    \/ EditCost
    \/ ChooseHoldingsFile
    \/ FileLoaded

Init == RouteInit /\ PageInitial /\ CsvInitial

ValueInit == RouteInit /\ ~finnhubKey /\ ValueInitial

PageInit == Init /\ ~finnhubKey

PageSpec == PageInit /\ [][PageNext]_vars

RouteSpec == Init /\ [][RouteNext]_vars

CsvSpec == PageInit /\ [][CsvNext]_vars

RoundTripSpec == PageInit /\ [][RoundTripNext]_vars

ValueSpec == ValueInit /\ [][ValueNext]_vars

HoldingsSpec == PageInit /\ [][HoldingsNext]_vars

\* The handler's own continuation runs and every equity provider answers;
\* nothing is assumed of the crypto provider, which may never answer.
FairRouteSpec ==
    /\ RouteSpec
    /\ WF_vars(EquityResponds)
    /\ WF_vars(Returns)

----------------------------------------------------------------------------
(* Claims about the price route *)

\* a finite number strictly greater than zero
ValidPrice(p) == p.t = "number" /\ p.v > 0

CryptoFailed == cg.k \in {"reject", "notok", "badbody"}

EveryQuoteRequested ==
    \A i \in DOMAIN equities : FinnhubFetch(equities[i]) \in Range(fetches)

\* the quote requests of equity symbol s that came back with a valid price
GoodQuotes(s) ==
    {i \in DOMAIN quotes :
        /\ equities[i] = s
        /\ quotes[i].k = "ok"
        /\ ValidPrice(quotes[i].j["c"])}

\* C1: when the batched crypto request fails (rejected fetch, non-success
\* response, body that is no JSON), the handler still returns a normal
\* response, leaves the crypto symbols without entry and, with a key, has
\* requested every equity quote.
C1_CryptoFailureAbsorbed ==
    (pc = "done" /\ CryptoFailed) =>
        /\ response.status = 200
        /\ \A s \in Range(crypto) : s \notin DOMAIN response.prices
        /\ finnhubKey => EveryQuoteRequested

\* C2: with crypto and equity symbols and a key, a handler waiting for the
\* crypto provider gets to issue every equity quote request unless the
\* crypto provider answers first: a crypto provider that never answers does
\* not keep the equity quote requests from being issued.
C2_EquitiesNotStalledByCrypto ==
    (pc = "awaitCrypto" /\ finnhubKey /\ equities # << >>)
        ~> (cg # Pending \/ Len(quotes) = Len(equities))

\* C3: once the equity quote requests have all settled, in whatever order,
\* the response is a normal one; an equity symbol with a request that
\* returned a valid price has an entry with such a price, and an equity
\* symbol whose requests all failed has no entry.
C3_EquityFailuresIsolated ==
    (pc = "done" /\ quotes # << >>) =>
        /\ response.status = 200
        /\ \A i \in DOMAIN equities :
             LET s == equities[i] IN
             IF GoodQuotes(s) # {}
             THEN /\ s \in DOMAIN response.prices
                  /\ \E g \in GoodQuotes(s) :
                        response.prices[s] = quotes[g].j["c"]
             ELSE s \notin DOMAIN response.prices

\* C4: without a key, a well-formed request ends with no equity quote
\* requested, a normal response, no entry for an equity symbol, and the
\* crypto entries that the crypto response alone determines.
C4_NoKeyNoEquities ==
    (pc = "done" /\ ~finnhubKey /\ ~Line8Throws(body)) =>
        /\ \A i \in DOMAIN fetches : fetches[i].to # "finnhub"
        /\ response.status = 200
        /\ \A s \in Range(equities) : s \notin DOMAIN response.prices
        /\ \A s \in Range(crypto) :
             IF cg.k = "ok" /\ AcceptsPrice(cg.j[CG_ID(s)])
             THEN /\ s \in DOMAIN response.prices
                  /\ response.prices[s] = JsonNumber(cg.j[CG_ID(s)])
             ELSE s \notin DOMAIN response.prices

\* C5: a symbol for which every upstream value received is something other
\* than a finite number greater than zero has no entry in out, as if the
\* value were absent.
C5_OnlyFinitePositiveStored ==
    pc = "done" =>
        /\ \A s \in Range(crypto) :
             (cg.k = "ok" /\ ~ValidPrice(cg.j[CG_ID(s)])) => s \notin DOMAIN out
        /\ \A s \in Range(equities) :
             (quotes # << >> /\ GoodQuotes(s) = {}) => s \notin DOMAIN out

\* a body that is no JSON, has no symbols array, or has an element that is
\* no string
Malformed(b) ==
    \/ ~b.parses
    \/ b.symbols.k \in {"missing", "nonarray"}
    \/ NotAString \in Range(b.symbols.a)

\* C6: a malformed request body is answered with an error response whose
\* prices map is empty.
C6_MalformedBodyIsError ==
    (pc = "done" /\ Malformed(body)) =>
        /\ response.status = 400
        /\ response.prices = EmptyMap


----------------------------------------------------------------------------
(* Claims about refreshPrices *)

\* the distinct, uppercased, non-empty symbols of the holdings h
RequestedSet(h) == {toUpperCase(h[i].symbol) : i \in DOMAIN h} \ {""}

\* a step in which refreshPrices runs in demo mode on a non-empty list
DemoRefreshStep ==
    /\ ClickRefresh \/ ClickSaveAndRefresh \/ ClickLive \/ ChangeCurrency
    /\ holdings # << >>
    /\ ~useLive'

\* a step in which a refreshPrices call in live mode starts
LiveRefreshStep == Len(inflight') > Len(inflight)

\* a step in which call i in flight leaves the calls in flight
EndsCall(i) ==
    /\ Len(inflight') < Len(inflight)
    /\ inflight' = RemoveAt(inflight, i)

\* the server returned a live value for symbol s
LiveHas(o, s) ==
    /\ o.k = "json"
    /\ s \in DOMAIN o.live
    /\ o.live[s].t \in {"number", "infinity"}

\* live value, else fallback-table value, else the unknown value 0
Reconciled(o, s) ==
    IF LiveHas(o, s) THEN o.live[s]
    ELSE IF s \in DEMO_KEYS THEN Num(DEMO_PRICES(s))
    ELSE Num(0)

\* C7: a refreshPrices call on a non-empty holdings list asks for exactly
\* the distinct, uppercased, non-empty symbols S of the holdings it starts
\* with, and the price map it publishes when it completes (demo mode, live
\* mode with any answer, live mode with a failed fetch) has exactly the keys
\* S.
C7_PublishedKeysAreRequested ==
    [][ /\ DemoRefreshStep => DOMAIN prices' = RequestedSet(holdings)
        /\ LiveRefreshStep =>
              Range(inflight'[Len(inflight')].symbols) = RequestedSet(holdings)
        /\ \A i \in DOMAIN inflight :
              EndsCall(i) => DOMAIN prices' = Range(inflight[i].symbols)
      ]_vars

\* C8: when a live refresh completes, each requested symbol is published
\* with the live value if the server returned one, otherwise with the
\* fallback-table price if the table has the symbol, otherwise with 0.
C8_LiveThenFallbackThenZero ==
    [][ \A i \in DOMAIN inflight :
           EndsCall(i) =>
              \A o \in RouteOutcomes :
                 prices' = Published(inflight[i].symbols, o) =>
                    \A s \in Range(inflight[i].symbols) :
                       /\ s \in DOMAIN prices'
                       /\ prices'[s] = Reconciled(o, s)
      ]_vars

\* C9: no step cancels a call in flight (a step starts one call, ends one
\* call or leaves the calls alone), and a call that completes publishes its
\* own result whichever calls were started after it, also when one of those
\* has already completed.
C9_LastCompletedWins ==
    [][ /\ \/ inflight' = inflight
           \/ /\ Len(inflight') = Len(inflight) + 1
              /\ SubSeq(inflight', 1, Len(inflight)) = inflight
           \/ \E i \in DOMAIN inflight : EndsCall(i)
        /\ \A i \in DOMAIN inflight :
              EndsCall(i) =>
                 \E o \in RouteOutcomes :
                    prices' = [s \in Range(inflight[i].symbols) |->
                                  Reconciled(o, s)]
      ]_vars

\* a live refresh of two rows that both hold btc in lower case has
\* completed with the one key BTC and its live price
C7_Witness ==
    /\ Len(holdings) = 2
    /\ \A i \in DOMAIN holdings : holdings[i].symbol = "btc"
    /\ DOMAIN prices = {"BTC"}
    /\ prices["BTC"] = Num(7)
    /\ inflight = << >>

\* a live refresh has published a live price for BTC, which the fallback
\* table knows, and the unknown value for ZZZ, which no table knows
C8_Witness ==
    /\ DOMAIN prices = {"BTC", "ZZZ"}
    /\ prices["BTC"] = Num(7)
    /\ prices["ZZZ"] = Num(0)

\* two calls are in flight at once, the older one asking for other symbols
\* than the younger one, and the live switch has been turned off since
C9_Witness ==
    /\ Len(inflight) = 2
    /\ Range(inflight[1].symbols) # Range(inflight[2].symbols)
    /\ Range(inflight[2].symbols) # RequestedSet(holdings)
    /\ ~useLive

----------------------------------------------------------------------------
(* Claims about the CSV import *)

\* the text has a header, and the header lacks a required column
HeaderLacksRequired(text) ==
    LET lines == filterBoolean(splitLines(text))
    IN /\ lines # << >>
       /\ \E k \in req : k \notin Range(Cols(Head(lines)))

\* C10: when the reading of a file whose header lacks one of the columns
\* symbol, type, quantity, costBasisPerUnit (in any case and order) ends,
\* the holdings are what they were before, in the page of part_000 and in
\* the page of page.tsx.
C10_RejectedImportLeavesHoldings ==
    [][ /\ (reader.reading /\ ~reader'.reading
              /\ HeaderLacksRequired(reader.text))
           => holdings' = holdings
        /\ (readerV1.reading /\ ~readerV1'.reading
              /\ HeaderLacksRequired(readerV1.text))
           => holdingsV1' = holdingsV1
      ]_vars

\* equal on symbol, type, quantity and costBasisPerUnit, row by row
SameButId(g, h) ==
    /\ Len(g) = Len(h)
    /\ \A i \in DOMAIN h :
          /\ g[i].symbol = h[i].symbol
          /\ g[i].type = h[i].type
          /\ g[i].quantity = h[i].quantity
          /\ g[i].costBasisPerUnit = h[i].costBasisPerUnit

\* C11: in every state, the text exportCSV writes for the holdings, read
\* back by importCSV, gives a list of the same length and order whose rows
\* equal the holdings on symbol, type, quantity and costBasisPerUnit.
C11_ExportImportRoundTrip ==
    SameButId(Loaded(csv(holdings), << >>), holdings)

----------------------------------------------------------------------------
(* Claims about the valuation *)

\* the sum of a list of numbers, from its end
RECURSIVE SumSeq(_)
SumSeq(xs) == IF xs = << >> THEN Num(0) ELSE Plus(Head(xs), SumSeq(Tail(xs)))

\* the map's value for the uppercased symbol if the map has the key, else
\* the price of the table with the keys keys if it has one, else 0
EffectivePrice(p, keys, price, symbol) ==
    LET sym == toUpperCase(symbol)
    IN IF sym \in DOMAIN p THEN p[sym]
       ELSE IF sym \in keys THEN Num(price)
       ELSE Num(0)

\* what the claim says of the totals t of the holdings h, where value[i] is
\* effectivePrice x quantity of row i
TotalsAsClaimed(t, h, value) ==
    /\ t.current = SumSeq(value)
    /\ t.cost = SumSeq([i \in DOMAIN h |->
                           Times(Tenths(h[i].costBasisPerUnit),
                                 h[i].quantity)])
    /\ t.pnl = Minus(t.current, t.cost)

\* C12: in both pages current is the sum over the holdings of
\* effectivePrice x quantity, with the price of the map for the uppercased
\* symbol if the map has it, else that of the fallback table if it has
\* one, else 0; cost is the sum of costBasisPerUnit x quantity; and pnl is
\* current - cost.
C12_TotalsAreSums ==
    /\ TotalsAsClaimed(totals(holdings, prices), holdings,
          [i \in DOMAIN holdings |->
              Times(EffectivePrice(prices, DEMO_KEYS,
                       IF toUpperCase(holdings[i].symbol) \in DEMO_KEYS
                       THEN DEMO_PRICES(toUpperCase(holdings[i].symbol))
                       ELSE 0,
                       holdings[i].symbol),
                    holdings[i].quantity)])
    /\ TotalsAsClaimed(page_totals(holdingsV1, pricesV1), holdingsV1,
          [i \in DOMAIN holdingsV1 |->
              Times(EffectivePrice(pricesV1, page_DEMO_KEYS,
                       IF toUpperCase(holdingsV1[i].symbol) \in page_DEMO_KEYS
                       THEN page_DEMO(toUpperCase(holdingsV1[i].symbol))
                       ELSE 0,
                       holdingsV1[i].symbol),
                    holdingsV1[i].quantity)])

\* btc is held and has a price in the map that is not the table's, ZZZ is
\* held and has no price anywhere
C12_Witness ==
    /\ Len(holdings) = 2
    /\ holdings[1].symbol = "btc" /\ holdings[1].quantity = Num(2)
    /\ holdings[2].symbol = "ZZZ" /\ holdings[2].quantity = Num(2)
    /\ DOMAIN prices = {"BTC"}
    /\ prices["BTC"] = Num(7)
    /\ totals(holdings, prices).current = Num(14)

\* C13: in both pages, when the total cost is 0 the percentage is the
\* number 0.
C13_ZeroCostZeroPct ==
    /\ totals(holdings, prices).cost = Num(0)
          => /\ totals(holdings, prices).pnlPct.t = "number"
             /\ totals(holdings, prices).pnlPct.v = 0
    /\ page_totals(holdingsV1, pricesV1).cost = Num(0)
          => /\ page_totals(holdingsV1, pricesV1).pnlPct.t = "number"
             /\ page_totals(holdingsV1, pricesV1).pnlPct.v = 0

\* the holdings cost nothing and are worth something
C13_Witness ==
    /\ holdings # << >>
    /\ totals(holdings, prices).cost = Num(0)
    /\ totals(holdings, prices).current.v > 0

\* C14: the allocation of page.tsx has one entry for each type held, with
\* the sum of the position values of that type, and no entry has the value
\* zero.
C14_ZeroValueTypesAbsent ==
    LET a == allocation(holdingsV1, pricesV1)
        ofType(name) == SelectSeq(holdingsV1, LAMBDA h : h.type = name)
    IN /\ {a[i].name : i \in DOMAIN a}
             = {holdingsV1[i].type : i \in DOMAIN holdingsV1}
       /\ \A i \in DOMAIN a :
             /\ a[i].value =
                   SumSeq([k \in DOMAIN ofType(a[i].name) |->
                              Times(page_px(pricesV1,
                                       toUpperCase(ofType(a[i].name)[k].symbol)),
                                    ofType(a[i].name)[k].quantity)])
             /\ a[i].value # Num(0)

----------------------------------------------------------------------------
(* Claims about the classifier of the price route *)

\* C15: once the handler has the uppercased symbols of the request, the
\* crypto bucket holds a symbol exactly when it is a key of CG_ID, the
\* equity bucket holds it otherwise, the buckets share no symbol and every
\* requested symbol is in one of them, as often as it was requested.
C15_ClassifierPartitions ==
    pc # "idle" =>
       /\ \A i \in DOMAIN symbols :
             /\ symbols[i] \in Range(crypto) <=> symbols[i] \in CG_ID_KEYS
             /\ symbols[i] \in Range(equities) <=> symbols[i] \notin CG_ID_KEYS
       /\ Range(crypto) \cap Range(equities) = {}
       /\ Range(crypto) \cup Range(equities) = Range(symbols)
       /\ Len(crypto) + Len(equities) = Len(symbols)

\* a request for btc and AAPL has been answered: BTC went to the crypto
\* bucket and AAPL, which no table knows, to the equity bucket
C15_Witness ==
    /\ pc = "done"
    /\ response.status = 200
    /\ Range(symbols) = {"BTC", "AAPL"}
    /\ Range(crypto) = {"BTC"}
    /\ Range(equities) = {"AAPL"}

----------------------------------------------------------------------------
(* Claims about the holdings list *)

\* a number that is not below 0
NonNegative(x) == x.t = "number" /\ x.v >= 0

\* C16: whatever rows were added, edited, removed and imported, every
\* holding has a quantity and a costBasisPerUnit that are not below 0.
C16_NeverNegative ==
    \A i \in DOMAIN holdings :
       /\ NonNegative(holdings[i].quantity)
       /\ NonNegative(holdings[i].costBasisPerUnit)

----------------------------------------------------------------------------
(* Claims about the modes and the busy flag of refreshPrices *)

\* a step in which a handler or the effect calls refreshPrices
CallsRefresh == ClickRefresh \/ ClickSaveAndRefresh \/ ClickLive \/ ChangeCurrency

\* the fallback-table price of s, or 0 when the table has none
FallbackOrZero(s) == IF s \in DEMO_KEYS THEN Num(DEMO_PRICES(s)) ELSE Num(0)

\* the answer of a fetch that rejects or whose body is no JSON
Throws == [k |-> "throws", live |-> EmptyMap]

\* C17: a refreshPrices call made while the live switch is off puts no
\* request in flight and publishes the fallback-table price, or 0, for
\* every symbol it was asked for; and no step of a call, in any mode and on
\* any answer, changes the holdings or the settings beyond what the
\* handler that made the call has set itself.
C17_DemoModeAsksNobody ==
    [][ /\ (CallsRefresh /\ ~useLive') =>
              /\ inflight' = inflight
              /\ \A s \in RequestedSet(holdings) :
                    /\ s \in DOMAIN prices'
                    /\ prices'[s] = FallbackOrZero(s)
        /\ (ClickRefresh \/ ClickSaveAndRefresh \/ RouteAnswers) =>
              /\ holdings' = holdings
              /\ settings' = settings
        /\ ClickLive =>
              /\ holdings' = holdings
              /\ settings'.baseCurrency = settings.baseCurrency
        /\ ChangeCurrency =>
              /\ holdings' = holdings
              /\ settings'.useLivePrices = settings.useLivePrices
      ]_vars

\* with the live switch off, btc and ZZZ are held and priced from the
\* table, and nothing is in flight
C17_Witness ==
    /\ ~useLive
    /\ RequestedSet(holdings) = {"BTC", "ZZZ"}
    /\ prices = [s \in {"BTC", "ZZZ"} |-> FallbackOrZero(s)]
    /\ inflight = << >>
    /\ ~busy

\* C18: a call whose request settles leaves the calls in flight with the
\* busy flag cleared, and when the request rejects or its body is no JSON
\* the map it publishes is the fallback map of the symbols it asked for.
C18_SettledCallClearsBusy ==
    [][ \A i \in DOMAIN inflight :
           /\ EndsCall(i) => ~busy'
           /\ (Settle(i, Throws) /\ UNCHANGED <<routeVars, csvVars>>) =>
                 prices' = [s \in Range(inflight[i].symbols) |->
                               FallbackOrZero(s)]
      ]_vars

\* in live mode, the one call for BTC has ended and BTC has its table price
C18_Witness ==
    /\ useLive
    /\ ~busy
    /\ inflight = << >>
    /\ RequestedSet(holdings) = {"BTC"}
    /\ prices = [s \in {"BTC"} |-> FallbackOrZero(s)]

\* C19: the busy flag is true in every state in which a refreshPrices call
\* is in flight.
C19_BusyWhileInFlight == inflight # << >> => busy

====
